---- MODULE Spec2Model ----
(***************************************************************************)
(* AutoBlockIPList: a run of the script that reads IP block lists from     *)
(* local files and URLs, normalises every line and writes the result into  *)
(* the AutoBlockIP table of the Synology deny-list database.               *)
(*                                                                         *)
(* Text (a file's content, a line, an address) is a sequence of            *)
(* one-character strings, so that split, replace, the address parser and   *)
(* the formatting of the canonical form are computed character by          *)
(* character as the code and the ipaddress library compute them.           *)
(*                                                                         *)
(* The clock counts whole seconds (the code takes int(start_time) and      *)
(* SQLite's strftime('%s','now')).  What verbose() prints is not part of   *)
(* the state; the two counts it reports are.  ipaddress is the library of  *)
(* CPython 3.9.5 to 3.11: no leading zero in an IPv4 octet, scope ids      *)
(* accepted by the parser.                                                 *)
(***************************************************************************)
EXTENDS Integers, Sequences, FiniteSets, TLC

VARIABLES
    pc,             \* position of the run in __main__
    argv,           \* the command line as given
    args,           \* the namespace parse_args returned (expire_in_day is overwritten)
    start_time,     \* int(start_time)
    now,            \* the clock, in seconds
    db,             \* committed rows of table AutoBlockIP in /etc/synoautoblock.db
    db0,            \* the rows of the table when the run started
    conn,           \* the sqlite3 connection: open or not, and the rows its transaction sees
    backup,         \* the copies of the database file in the backup folder
    data,           \* get_ip_list: what each source gave, in reading order
    ips,            \* the flat token list
    ips_formatted,  \* process_ip: the entries [address, ipstd, expire]
    ips_invalid,    \* process_ip: the tokens that are no address
    nb_ip_before,   \* the deny count read before the REPLACE
    nb_ip_after,    \* the deny count read after the REPLACE
    executed,       \* the writing statements the cursor executed
    octets,         \* the four octets a dotted quad was written from (canonical-form runs)
    run             \* which application of the script this is: 1, or 2 when it ran again

vars == <<pc, argv, args, start_time, now, db, db0, conn, backup, data, ips,
          ips_formatted, ips_invalid, nb_ip_before, nb_ip_after, executed, octets, run>>

-----------------------------------------------------------------------------
(* Bounds of the model.                                                    *)

MaxSources == 2     \* files plus urls on one command line
MaxDays == 1        \* largest --expire-in-day
MaxElapsed == 1     \* seconds the clock advances while the lists are read, when it does
Now0 == 100         \* the clock when the run starts
MaxTokens == 2      \* tokens in one list handed to process_ip alone

(* Program constant: seconds in a day, 60 * 60 * 24.                       *)
DaySeconds == 86400

-----------------------------------------------------------------------------
(* Characters.                                                             *)

LF == "\n"
CR == "\r"

DecDigits == <<"0", "1", "2", "3", "4", "5", "6", "7", "8", "9">>
HexDigitsLower == DecDigits \o <<"a", "b", "c", "d", "e", "f">>

DigitValue ==
    "0" :> 0 @@ "1" :> 1 @@ "2" :> 2 @@ "3" :> 3 @@ "4" :> 4 @@
    "5" :> 5 @@ "6" :> 6 @@ "7" :> 7 @@ "8" :> 8 @@ "9" :> 9

HexValue ==
    DigitValue @@
    "a" :> 10 @@ "b" :> 11 @@ "c" :> 12 @@ "d" :> 13 @@ "e" :> 14 @@ "f" :> 15 @@
    "A" :> 10 @@ "B" :> 11 @@ "C" :> 12 @@ "D" :> 13 @@ "E" :> 14 @@ "F" :> 15

UpperOf ==
    "a" :> "A" @@ "b" :> "B" @@ "c" :> "C" @@ "d" :> "D" @@ "e" :> "E" @@
    "f" :> "F" @@ "g" :> "G" @@ "h" :> "H" @@ "i" :> "I" @@ "j" :> "J" @@
    "k" :> "K" @@ "l" :> "L" @@ "m" :> "M" @@ "n" :> "N" @@ "o" :> "O" @@
    "p" :> "P" @@ "q" :> "Q" @@ "r" :> "R" @@ "s" :> "S" @@ "t" :> "T" @@
    "u" :> "U" @@ "v" :> "V" @@ "w" :> "W" @@ "x" :> "X" @@ "y" :> "Y" @@
    "z" :> "Z"

(* F(e), with e evaluated once and handed to F as a value *)
Bind(e, F(_)) == CHOOSE r \in {F(x) : x \in {e}} : TRUE

(* str.upper() *)
upper(s) == [i \in 1..Len(s) |-> IF s[i] \in DOMAIN UpperOf THEN UpperOf[s[i]] ELSE s[i]]

(* str.replace(old, "") for a one-character old *)
replace(s, old) == SelectSeq(s, LAMBDA c : c # old)

Contains(s, c) == \E i \in 1..Len(s) : s[i] = c

(* the places of sep in s, and the k-th of them (0 before the first,       *)
(* Len(s) + 1 after the last)                                              *)
Places(s, sep) == {i \in 1..Len(s) : s[i] = sep}

Place(at, k, n) ==
    IF k = 0 THEN 0
    ELSE IF k > Cardinality(at) THEN n + 1
    ELSE CHOOSE p \in at : Cardinality({q \in at : q <= p}) = k

(* str.split(sep) for a one-character sep: one field more than separators *)
split(s, sep) ==
    Bind(Places(s, sep), LAMBDA at :
        [k \in 1..(Cardinality(at) + 1) |->
            SubSeq(s, Place(at, k - 1, Len(s)) + 1, Place(at, k, Len(s)) - 1)])

(* int(text) of a run of decimal digits *)
int(s) ==
    LET value[k \in 0..Len(s)] ==
            IF k = 0 THEN 0 ELSE 10 * value[k - 1] + DigitValue[s[k]]
    IN value[Len(s)]

(* int(text, 16) *)
int16(s) ==
    LET value[k \in 0..Len(s)] ==
            IF k = 0 THEN 0 ELSE 16 * value[k - 1] + HexValue[s[k]]
    IN value[Len(s)]

(* '{:02x}' of one number below 256: exactly two lowercase hex digits *)
Format02x(n) == <<HexDigitsLower[(n \div 16) + 1], HexDigitsLower[(n % 16) + 1]>>

(* '%04x' of one number below 65536 *)
Format04x(n) == Format02x(n \div 256) \o Format02x(n % 256)

(* '%x' of one number below 65536: no leading zeros *)
FormatX(n) ==
    LET all == Format04x(n)
        first == IF n >= 4096 THEN 1 ELSE IF n >= 256 THEN 2 ELSE IF n >= 16 THEN 3 ELSE 4
    IN SubSeq(all, first, 4)

(* sep.join(groups) *)
Join(groups, sep) ==
    LET joined[k \in 1..Len(groups)] ==
            IF k = 1 THEN groups[1] ELSE joined[k - 1] \o <<sep>> \o groups[k]
    IN IF Len(groups) = 0 THEN <<>> ELSE joined[Len(groups)]

-----------------------------------------------------------------------------
(* ipaddress.ip_address, as the standard library (CPython 3.9.5 to 3.11)   *)
(* computes it.                                                            *)

(* IPv4Address._parse_octet: decimal digits only, at most three, no       *)
(* leading zero, at most 255.                                              *)
ValidOctet(o) ==
    /\ Len(o) >= 1
    /\ Len(o) <= 3
    /\ \A i \in 1..Len(o) : o[i] \in DOMAIN DigitValue
    /\ (Len(o) > 1 => o[1] # "0")
    /\ int(o) <= 255

(* IPv4Address(text) does not raise *)
IsIPv4(t) ==
    /\ ~Contains(t, "/")
    /\ \E parts \in {split(t, ".")} :
          /\ Len(parts) = 4
          /\ \A i \in 1..4 : ValidOctet(parts[i])

(* the 32-bit value of a valid dotted quad *)
IPv4Int(t) ==
    Bind(split(t, "."), LAMBDA p :
        ((int(p[1]) * 256 + int(p[2])) * 256 + int(p[3])) * 256 + int(p[4]))

(* IPv6Address._parse_hextet *)
ValidHextet(h) ==
    /\ Len(h) >= 1
    /\ Len(h) <= 4
    /\ \A i \in 1..Len(h) : h[i] \in DOMAIN HexValue

(* IPv6Address._split_scope_id: the address, the scope id, and whether the *)
(* text is well formed                                                     *)
SplitScope(t) ==
    Bind(Places(t, "%"), LAMBDA at :
        IF at = {} THEN [addr |-> t, scoped |-> FALSE, scope |-> <<>>, ok |-> TRUE]
        ELSE [addr |-> SubSeq(t, 1, Place(at, 1, Len(t)) - 1),
              scoped |-> TRUE,
              scope |-> SubSeq(t, Place(at, 1, Len(t)) + 1, Len(t)),
              ok |-> Cardinality(at) = 1 /\ Place(at, 1, Len(t)) < Len(t)])

(* _ip_int_from_string, first half: the colon-separated parts, an IPv4     *)
(* suffix rewritten as two hextets; <<>> when the text has fewer than      *)
(* three parts or its suffix is no IPv4 address                            *)
V6Parts(a) ==
    Bind(split(a, ":"), LAMBDA raw :
        IF Len(raw) < 3 THEN <<>>
        ELSE IF Contains(raw[Len(raw)], ".")
        THEN IF IsIPv4(raw[Len(raw)])
             THEN Bind(IPv4Int(raw[Len(raw)]), LAMBDA v :
                      SubSeq(raw, 1, Len(raw) - 1)
                          \o <<FormatX((v \div 65536) % 65536), FormatX(v % 65536)>>)
             ELSE <<>>
        ELSE raw)

(* the places of an empty part strictly inside the list: where "::" stands *)
SkipIndexes(parts) == {i \in 2..(Len(parts) - 1) : parts[i] = <<>>}

(* _ip_int_from_string, second half: the eight hextets of the parts, <<>>  *)
(* when they are no IPv6 address                                           *)
V6FromParts(parts) ==
    LET n == Len(parts)
        skips == SkipIndexes(parts)
    IN IF n = 0 \/ n > 9 \/ Cardinality(skips) > 1
       THEN <<>>
       ELSE IF skips # {}
       THEN LET k == CHOOSE i \in skips : TRUE
                hi == IF parts[1] = <<>> THEN k - 2 ELSE k - 1
                lo == IF parts[n] = <<>> THEN n - k - 1 ELSE n - k
                skipped == 8 - (hi + lo)
            IN IF \/ (parts[1] = <<>> /\ hi # 0)
                  \/ (parts[n] = <<>> /\ lo # 0)
                  \/ skipped < 1
                  \/ \E i \in 1..hi : ~ValidHextet(parts[i])
                  \/ \E i \in (n - lo + 1)..n : ~ValidHextet(parts[i])
               THEN <<>>
               ELSE [i \in 1..8 |->
                        IF i <= hi THEN int16(parts[i])
                        ELSE IF i <= hi + skipped THEN 0
                        ELSE int16(parts[n - lo + (i - hi - skipped)])]
       ELSE IF n # 8 \/ \E i \in 1..n : ~ValidHextet(parts[i])
            THEN <<>>
            ELSE [i \in 1..8 |-> int16(parts[i])]

V6Hextets(a) == Bind(V6Parts(a), LAMBDA parts : V6FromParts(parts))

(* IPv6Address(text) does not raise *)
IsIPv6(t) ==
    /\ ~Contains(t, "/")
    /\ \E s \in {SplitScope(t)} : s.ok /\ V6Hextets(s.addr) # <<>>

(* ip_address(text).version, 0 when ip_address raises ValueError *)
ip_version(t) ==
    IF IsIPv4(t) THEN 4 ELSE IF IsIPv6(t) THEN 6 ELSE 0

-----------------------------------------------------------------------------
(* The canonical forms.                                                    *)

V4Prefix == <<"0","0","0","0",":","0","0","0","0",":","0","0","0","0",":",
              "0","0","0","0",":","0","0","0","0",":","f","f","f","f",":">>

(* faulty variant: '{:x}{:x}', the octets not padded to two digits *)
ipv4_to_ipstd_unpadded(ipv4) ==
    Bind(split(ipv4, "."), LAMBDA bits :
        Bind(V4Prefix \o FormatX(int(bits[1])) \o FormatX(int(bits[2])) \o <<":">>
                      \o FormatX(int(bits[3])) \o FormatX(int(bits[4])),
             LAMBDA text : upper(text)))

ipv4_to_ipstd(ipv4) ==
    Bind(split(ipv4, "."), LAMBDA bits :
        Bind(V4Prefix \o Format02x(int(bits[1])) \o Format02x(int(bits[2])) \o <<":">>
                      \o Format02x(int(bits[3])) \o Format02x(int(bits[4])),
             LAMBDA text : upper(text)))

(* IPv6Address.exploded (CPython 3.9 to 3.11): str(address) is parsed again *)
(* by _ip_int_from_string, which raises AddressValueError, a ValueError,    *)
(* on the "%scope" that str() keeps.                                        *)
ExplodedRaises(ipv6) == SplitScope(ipv6).scoped

(* IPv6Address.exploded: '%032x' cut in groups of four *)
exploded(ipv6) ==
    Bind(V6Hextets(SplitScope(ipv6).addr), LAMBDA h :
        Join([i \in 1..8 |-> Format04x(h[i])], ":"))

ipv6_to_ipstd(ipv6) == Bind(exploded(ipv6), LAMBDA text : upper(text))

(* one pass of the loop of process_ip over token i *)
ProcessOne(acc, i, expire) ==
    Bind(ip_version(i), LAMBDA v :
        IF v = 0 \/ (v = 6 /\ ExplodedRaises(i))          \* ValueError in the try
        THEN [acc EXCEPT !.invalid = IF i # <<>> THEN Append(@, i) ELSE @]
        ELSE [acc EXCEPT !.processed =
                 Append(@, <<i,
                             IF v = 4 THEN ipv4_to_ipstd(i)
                             ELSE IF v = 6 THEN ipv6_to_ipstd(i)
                             ELSE <<>>,
                             expire>>)])

process_ip(ip_list, expire) ==
    LET loop[k \in 0..Len(ip_list)] ==
            IF k = 0 THEN [processed |-> <<>>, invalid |-> <<>>]
            ELSE Bind(loop[k - 1], LAMBDA acc : ProcessOne(acc, ip_list[k], expire))
    IN loop[Len(ip_list)]

-----------------------------------------------------------------------------
(* Table AutoBlockIP and the four statements the script executes.  IP is   *)
(* the primary key of the table.                                           *)

Row(ip, ipstd, expire, deny, rec) ==
    [IP |-> ip, IPStd |-> ipstd, ExpireTime |-> expire, Deny |-> deny,
     RecordTime |-> rec, Type |-> 0, Meta |-> "NULL"]

(* DELETE FROM AutoBlockIP WHERE Deny = 1 AND ExpireTime > 0 AND ExpireTime < strftime('%s','now') *)
DeleteExpired(rows, t) ==
    {r \in rows : ~(r.Deny = 1 /\ r.ExpireTime > 0 /\ r.ExpireTime < t)}

(* faulty variant: DELETE FROM AutoBlockIP, with no WHERE *)
DeleteAll(rows) == {}

(* DELETE FROM AutoBlockIP WHERE Deny = 1 *)
DeleteDeny(rows) == {r \in rows : ~(r.Deny = 1)}

(* SELECT COUNT(IP) FROM AutoBlockIP WHERE Deny = 1 *)
CountDeny(rows) == Cardinality({r \in rows : r.Deny = 1})

(* faulty variant: INSERT on a table without the primary key: the old row stays *)
InsertInto(rows, e, t) == rows \cup {Row(e[1], e[2], e[3], 1, t)}

(* faulty variant: INSERT OR IGNORE, which keeps the row the key already has *)
InsertOrIgnore(rows, e, t) ==
    IF \E r \in rows : r.IP = e[1] THEN rows
    ELSE rows \cup {Row(e[1], e[2], e[3], 1, t)}

(* REPLACE INTO AutoBlockIP (...) VALUES(?, ?, ?, 1, strftime('%s','now'), 0, NULL) *)
(* for one entry: the row with the same key goes, the new row comes        *)
ReplaceInto(rows, e, t) ==
    {r \in rows : r.IP # e[1]} \cup {Row(e[1], e[2], e[3], 1, t)}

(* executemany: the statement once per entry, in list order *)
executemany(rows, entries, t) ==
    LET after[k \in 0..Len(entries)] ==
            IF k = 0 THEN rows ELSE ReplaceInto(after[k - 1], entries[k], t)
    IN after[Len(entries)]

-----------------------------------------------------------------------------
(* The sources.                                                            *)

(* faulty variant: r.text is kept although raise_for_status raised *)
get_ip_remote_keeps_body(link) == replace(link.text, CR)

get_ip_remote(link) ==
    IF link.ok THEN replace(link.text, CR) ELSE <<>>

get_ip_local(file) == replace(file.text, CR)

(* reduce(lambda a, b: a + b, data) *)
reduce(lists) ==
    LET sum[k \in 1..Len(lists)] ==
            IF k = 1 THEN lists[1] ELSE sum[k - 1] \o lists[k]
    IN sum[Len(lists)]

(* what each source gave: the files first, then the urls *)
SourceData(local, external) ==
    [i \in 1..Len(local) |->
        [kind |-> "file", ok |-> TRUE, lines |-> split(get_ip_local(local[i]), LF)]]
    \o
    [i \in 1..Len(external) |->
        [kind |-> "url", ok |-> external[i].ok,
         lines |-> split(get_ip_remote(external[i]), LF)]]

get_ip_list(local, external) ==
    Bind(SourceData(local, external), LAMBDA d : reduce([i \in 1..Len(d) |-> d[i].lines]))

-----------------------------------------------------------------------------
(* The inputs of a run.                                                    *)

Addr4 == <<"1", ".", "2", ".", "3", ".", "4">>
Addr6 == <<":", ":", "1">>

TextA == <<"1", ".", "2", ".", "3", ".", "4", LF, ":", ":", "1", LF, "b", "o", "g", "u", "s", LF>>
TextB == <<"1", ".", "2", ".", "3", ".", "4", CR, LF, CR, LF, "9", "9", "9", ".", "1", ".", "1", ".", "1">>
Texts == {TextA, TextB}

(* the body of a response whose status is an error *)
ErrorBody == <<"4", "0", "4">>

FileReads == {[ok |-> TRUE, text |-> t] : t \in Texts}
Responses == FileReads \cup {[ok |-> FALSE, text |-> ErrorBody]}

(* the rows the table may hold when the run starts: at most one per key *)
InitialRows ==
    {Row(a, IF a = Addr4 THEN ipv4_to_ipstd(a) ELSE ipv6_to_ipstd(a), e, d, Now0 - 1) :
        a \in {Addr4, Addr6}, e \in {0, Now0}, d \in {0, 1}}

InitialStores ==
    {rows \in SUBSET InitialRows : \A r1, r2 \in rows : r1.IP = r2.IP => r1 = r2}

NoArgs ==
    [in_file |-> <<>>, in_url |-> <<>>, expire_in_day |-> 0, remove_expired |-> FALSE,
     backup_to |-> "None", clear_db |-> FALSE, dry_run |-> FALSE]

Names(n) == [i \in 1..n |-> i]

CommandLines ==
    {[in_file |-> Names(nf), in_url |-> Names(nu), expire_in_day |-> e,
      remove_expired |-> re, backup_to |-> b, clear_db |-> c, dry_run |-> d] :
        nf \in 0..MaxSources, nu \in 0..MaxSources, e \in 0..MaxDays,
        re \in BOOLEAN, b \in {"None", "/backup"}, c \in BOOLEAN, d \in BOOLEAN}

Closed == [open |-> FALSE, rows |-> {}]

Init ==
    /\ pc = "start"
    /\ argv = NoArgs
    /\ args = NoArgs
    /\ start_time = 0
    /\ now = Now0
    /\ db \in InitialStores
    /\ db0 = db
    /\ conn = Closed
    /\ backup = {}
    /\ data = <<>>
    /\ ips = <<>>
    /\ ips_formatted = <<>>
    /\ ips_invalid = <<>>
    /\ nb_ip_before = -1
    /\ nb_ip_after = -1
    /\ executed = {}
    /\ octets = <<>>
    /\ run = 1

-----------------------------------------------------------------------------
(* __main__, step by step.                                                 *)

(* faulty variant: --clear-db is accepted without a backup folder *)
ParseExit_no_backup_check(a) ==
    IF Len(a.in_file) = 0 /\ Len(a.in_url) = 0 THEN "error_no_source" ELSE "check_db"

(* the exit of parse_args on command line a when every type check of       *)
(* argparse passed                                                         *)
ParseExit(a) ==
    IF Len(a.in_file) = 0 /\ Len(a.in_url) = 0 THEN "error_no_source"
    ELSE IF a.clear_db /\ a.backup_to = "None" THEN "error_backup_required"
    ELSE "check_db"

(* lines 135-136: start_time, then parse_args.  FileType('r') opens every  *)
(* file, url and folder check every value, while the line is parsed: one   *)
(* that fails ends the run there.                                          *)
parse_args ==
    /\ pc = "start"
    /\ \E a \in CommandLines :
         /\ Len(a.in_file) + Len(a.in_url) <= MaxSources
         /\ argv' = a
         /\ \E exit \in {"ok"}
                  \cup (IF Len(a.in_file) > 0 THEN {"error_file"} ELSE {})
                  \cup (IF Len(a.in_url) > 0 THEN {"error_url"} ELSE {})
                  \cup (IF a.backup_to # "None" THEN {"error_folder"} ELSE {}) :
              IF exit = "ok"
              THEN /\ pc' = ParseExit(a)
                   /\ args' = IF ParseExit(a) = "check_db" THEN a ELSE args
              ELSE /\ pc' = exit
                   /\ args' = args
    /\ start_time' = now
    /\ UNCHANGED <<now, db, db0, conn, backup, data, ips, ips_formatted, ips_invalid,
                   nb_ip_before, nb_ip_after, executed, octets, run>>

(* lines 143-146 *)
CheckDb ==
    /\ pc = "check_db"
    /\ pc' \in {"backup", "fatal_no_db", "fatal_db_unreadable"}
    /\ UNCHANGED <<argv, args, start_time, now, db, db0, conn, backup, data, ips,
                   ips_formatted, ips_invalid, nb_ip_before, nb_ip_after, executed, octets, run>>

(* lines 148-151: shutil.copy either copies the file or raises *)
Backup ==
    /\ pc = "backup"
    /\ IF args.backup_to = "None"
       THEN /\ pc' = "expire"
            /\ backup' = backup
       ELSE \E copied \in BOOLEAN :
              /\ pc' = IF copied THEN "expire" ELSE "fatal_backup"
              /\ backup' = IF copied THEN backup \cup {db} ELSE backup
    /\ UNCHANGED <<argv, args, start_time, now, db, db0, conn, data, ips,
                   ips_formatted, ips_invalid, nb_ip_before, nb_ip_after, executed, octets, run>>

(* lines 153-154 *)
ExpireAt(days, start) ==
    IF days > 0 THEN start + days * 60 * 60 * 24 ELSE days

Expire ==
    /\ pc = "expire"
    /\ args' = [args EXCEPT !.expire_in_day = ExpireAt(@, start_time)]
    /\ pc' = "read"
    /\ UNCHANGED <<argv, start_time, now, db, db0, conn, backup, data, ips,
                   ips_formatted, ips_invalid, nb_ip_before, nb_ip_after, executed, octets, run>>

(* lines 156-161 and 188: every source answers, the lists are normalised,  *)
(* and the run goes on to the database only with a non-empty list          *)
ReadLists ==
    /\ pc = "read"
    /\ \E local \in [1..Len(args.in_file) -> FileReads],
          external \in [1..Len(args.in_url) -> Responses],
          dt \in {0, MaxElapsed} :
         \E list \in {get_ip_list(local, external)} :
         \E r \in {process_ip(list, args.expire_in_day)} :
            /\ data' = SourceData(local, external)
            /\ ips' = list
            /\ ips_formatted' = r.processed
            /\ ips_invalid' = r.invalid
            /\ now' = now + dt
            /\ pc' = IF Len(r.processed) > 0 THEN "connect" ELSE "no_ip"
    /\ UNCHANGED <<argv, args, start_time, db, db0, conn, backup,
                   nb_ip_before, nb_ip_after, executed, octets, run>>

(* line 37: file.read() raises, nothing catches it, and no url is fetched  *)
ReadFails ==
    /\ pc = "read"
    /\ Len(args.in_file) > 0
    /\ pc' = "fatal_read"
    /\ UNCHANGED <<argv, args, start_time, now, db, db0, conn, backup, data, ips,
                   ips_formatted, ips_invalid, nb_ip_before, nb_ip_after, executed, octets, run>>

(* faulty variant: the purge ignores --dry-run *)
remove_expired_in_dry_run(rows, a, t) ==
    IF a.remove_expired THEN DeleteExpired(rows, t) ELSE rows

(* lines 165-167 *)
remove_expired(rows, a, t) ==
    IF a.remove_expired /\ ~a.dry_run THEN DeleteExpired(rows, t) ELSE rows

(* lines 169-171 *)
clear_db(rows, a) ==
    IF a.clear_db /\ ~a.dry_run THEN DeleteDeny(rows) ELSE rows

(* faulty variant: a connection in autocommit mode, every delete written at once *)
Sweep_autocommit ==
    /\ pc = "connect"
    /\ \E rows \in {IF args.clear_db /\ ~args.dry_run
                     THEN DeleteDeny(IF args.remove_expired THEN DeleteExpired(db, now) ELSE db)
                     ELSE IF args.remove_expired /\ ~args.dry_run
                     THEN DeleteExpired(db, now) ELSE db} :
          /\ db' = rows
          /\ conn' = [open |-> TRUE, rows |-> rows]
    /\ executed' = executed
           \cup (IF args.remove_expired /\ ~args.dry_run THEN {"purge"} ELSE {})
           \cup (IF args.clear_db /\ ~args.dry_run THEN {"clear"} ELSE {})
    /\ pc' = "upsert"
    /\ UNCHANGED <<argv, args, start_time, now, db0, backup, data, ips,
                   ips_formatted, ips_invalid, nb_ip_before, nb_ip_after, octets, run>>

(* lines 162-171: the connection opens on the committed rows; the deletes  *)
(* are seen by this connection only until the commit                       *)
Sweep ==
    /\ pc = "connect"
    /\ conn' = [open |-> TRUE, rows |-> clear_db(remove_expired(db, args, now), args)]
    /\ executed' = executed
           \cup (IF args.remove_expired /\ ~args.dry_run THEN {"purge"} ELSE {})
           \cup (IF args.clear_db /\ ~args.dry_run THEN {"clear"} ELSE {})
    /\ pc' = "upsert"
    /\ UNCHANGED <<argv, args, start_time, now, db, db0, backup, data, ips,
                   ips_formatted, ips_invalid, nb_ip_before, nb_ip_after, octets, run>>

(* lines 177-181 *)
replace_into(rows, a, entries, t) ==
    IF ~a.dry_run THEN executemany(rows, entries, t) ELSE rows

(* lines 173-183 *)
Upsert ==
    /\ pc = "upsert"
    /\ \E rows \in {replace_into(conn.rows, args, ips_formatted, now)} :
          /\ nb_ip_before' = CountDeny(conn.rows)
          /\ conn' = [conn EXCEPT !.rows = rows]
          /\ nb_ip_after' = CountDeny(rows)
    /\ executed' = executed \cup (IF ~args.dry_run THEN {"replace"} ELSE {})
    /\ pc' = "commit"
    /\ UNCHANGED <<argv, args, start_time, now, db, db0, backup, data, ips,
                   ips_formatted, ips_invalid, octets, run>>

(* lines 184-186 *)
Commit ==
    /\ pc = "commit"
    /\ db' = conn.rows
    /\ conn' = Closed
    /\ pc' = "done"
    /\ UNCHANGED <<argv, args, start_time, now, db0, backup, data, ips,
                   ips_formatted, ips_invalid, nb_ip_before, nb_ip_after, executed, octets, run>>

(* a statement, the connect or the commit raises sqlite3.Error: the script *)
(* dies with the traceback, the connection goes without a commit and       *)
(* SQLite rolls its transaction back                                       *)
StoreFails ==
    /\ pc \in {"connect", "upsert", "commit"}
    /\ conn' = Closed
    /\ pc' = "fatal_store"
    /\ UNCHANGED <<argv, args, start_time, now, db, db0, backup, data, ips,
                   ips_formatted, ips_invalid, nb_ip_before, nb_ip_after, executed, octets, run>>

Next ==
    \/ parse_args
    \/ CheckDb
    \/ Backup
    \/ Expire
    \/ ReadLists
    \/ ReadFails
    \/ Sweep
    \/ Upsert
    \/ Commit
    \/ StoreFails

Spec == Init /\ [][Next]_vars

-----------------------------------------------------------------------------
(* process_ip alone, on token lists drawn from a pool of well and badly    *)
(* formed addresses.                                                       *)

TokenPool == {
    <<>>,
    <<"1", ".", "2", ".", "3", ".", "4">>,
    <<"2", "5", "5", ".", "0", ".", "1", "0", ".", "1", "7", "1">>,
    <<"2", "5", "6", ".", "1", ".", "1", ".", "1">>,
    <<"0", "1", ".", "2", ".", "3", ".", "4">>,
    <<"1", ".", "2", ".", "3">>,
    <<"b", "o", "g", "u", "s">>,
    <<":", ":", "1">>,
    <<"F", "E", "8", "0", ":", ":", "A", "b", "C", "d">>,
    <<"1", ":", ":", "2", ":", ":", "3">>,
    <<":", ":", "f", "f", "f", "f", ":", "1", ".", "2", ".", "3", ".", "4">>,
    <<"2", "0", "0", "1", ":", "d", "b", "8", ":", "0", ":", "0", ":", "0", ":", "0", ":", "0", ":", "1">>,
    <<"f", "e", "8", "0", ":", ":", "1", "%", "e", "t", "h", "0">>}

TokenLists == UNION {[1..n -> TokenPool] : n \in 0..MaxTokens}

Idle ==
    /\ argv = NoArgs
    /\ start_time = Now0
    /\ now = Now0
    /\ db = {}
    /\ db0 = {}
    /\ conn = Closed
    /\ backup = {}
    /\ data = <<>>
    /\ nb_ip_before = -1
    /\ nb_ip_after = -1
    /\ executed = {}
    /\ run = 1

InitNorm ==
    /\ Idle
    /\ pc = "norm"
    /\ args = NoArgs
    /\ ips \in TokenLists
    /\ ips_formatted = <<>>
    /\ ips_invalid = <<>>
    /\ octets = <<>>

(* line 157 *)
Normalize ==
    /\ pc = "norm"
    /\ \E r \in {process_ip(ips, args.expire_in_day)} :
          /\ ips_formatted' = r.processed
          /\ ips_invalid' = r.invalid
    /\ pc' = "norm_done"
    /\ UNCHANGED <<argv, args, start_time, now, db, db0, conn, backup, data, ips,
                   nb_ip_before, nb_ip_after, executed, octets, run>>

SpecNorm == InitNorm /\ [][Normalize]_vars

(* process_ip on one dotted quad written from four octets *)
OctetSamples == {0, 1, 9, 10, 15, 16, 100, 171, 255}

(* str(n) of a number below 1000 *)
Str10(n) ==
    IF n >= 100 THEN <<DecDigits[(n \div 100) + 1], DecDigits[((n \div 10) % 10) + 1],
                       DecDigits[(n % 10) + 1]>>
    ELSE IF n >= 10 THEN <<DecDigits[(n \div 10) + 1], DecDigits[(n % 10) + 1]>>
    ELSE <<DecDigits[n + 1]>>

DottedQuad(o) == Join([i \in 1..4 |-> Str10(o[i])], ".")

InitCanon ==
    /\ Idle
    /\ pc = "norm"
    /\ \E e \in {0, Now0 + DaySeconds} : args = [NoArgs EXCEPT !.expire_in_day = e]
    /\ octets \in [1..4 -> OctetSamples]
    /\ ips = <<DottedQuad(octets)>>
    /\ ips_formatted = <<>>
    /\ ips_invalid = <<>>

SpecCanon == InitCanon /\ [][Normalize]_vars

-----------------------------------------------------------------------------
(* The upsert step applied, committed, and applied again with the same     *)
(* entry list.                                                             *)

EntryLists ==
    {process_ip(l, e).processed :
        l \in UNION {[1..n -> {Addr4, Addr6}] : n \in 1..MaxTokens},
        e \in {0, Now0 + DaySeconds}}

InitUpsert ==
    /\ pc = "upsert"
    /\ argv = NoArgs
    /\ args = NoArgs
    /\ start_time = Now0
    /\ now = Now0
    /\ db \in InitialStores
    /\ db0 = db
    /\ conn = [open |-> TRUE, rows |-> db]
    /\ backup = {}
    /\ data = <<>>
    /\ ips = <<>>
    /\ ips_formatted \in EntryLists
    /\ ips_invalid = <<>>
    /\ nb_ip_before = -1
    /\ nb_ip_after = -1
    /\ executed = {}
    /\ octets = <<>>
    /\ run = 1

(* the script runs again on the same list: lines 162-163, with neither     *)
(* --remove-expired nor --clear-db                                         *)
Again ==
    /\ pc = "done"
    /\ run = 1
    /\ run' = 2
    /\ db0' = db
    /\ conn' = [open |-> TRUE, rows |-> db]
    /\ \E dt \in {0, MaxElapsed} : now' = now + dt
    /\ nb_ip_before' = -1
    /\ nb_ip_after' = -1
    /\ executed' = {}
    /\ pc' = "upsert"
    /\ UNCHANGED <<argv, args, start_time, db, backup, data, ips, ips_formatted,
                   ips_invalid, octets>>

NextUpsert ==
    \/ Upsert
    \/ Commit
    \/ Again

SpecUpsert == InitUpsert /\ [][NextUpsert]_vars

-----------------------------------------------------------------------------
(* The claims.                                                             *)

(* a text as a TLA+ string *)
RECURSIVE Str(_)
Str(t) == IF t = <<>> THEN "" ELSE Head(t) \o Str(Tail(t))

Addresses(entries) == {entries[k][1] : k \in 1..Len(entries)}

DenyRows(rows) == {r \in rows : r.Deny = 1}

ExpiredAt(r, t) == r.Deny = 1 /\ r.ExpireTime > 0 /\ r.ExpireTime < t

(* C1: a run given --dry-run changes no row of the store: no purge delete, *)
(* no clear-all delete and no REPLACE is executed, the connection sees the *)
(* rows the store had, and the deny count read before equals the count     *)
(* read after.                                                             *)
C1_DryRunLeavesStore ==
    argv.dry_run =>
        /\ db = db0
        /\ executed = {}
        /\ (conn.open => conn.rows = db0)
        /\ (pc \in {"commit", "done"} =>
               nb_ip_before = nb_ip_after /\ nb_ip_before = CountDeny(db0))

(* C1 witness: a finished dry run with --remove-expired and --clear-db on  *)
(* a store that holds a deny row, one of them expired at purge time, and a *)
(* list naming an address the store does not hold.                         *)
C1_Witness ==
    /\ pc = "done"
    /\ argv.dry_run /\ argv.remove_expired /\ argv.clear_db
    /\ \E r \in db0 : ExpiredAt(r, now)
    /\ \E a \in Addresses(ips_formatted) : \A r \in db0 : r.IP # a

(* C2: when the normalized list is empty, a run without --dry-run still    *)
(* purges the expired deny rows (with --remove-expired) and deletes every  *)
(* deny row (with --clear-db).                                             *)
C2_SweepRunsOnEmptyList ==
    (pc = "no_ip" /\ ~argv.dry_run) =>
        /\ (argv.clear_db => DenyRows(db) = {})
        /\ (argv.remove_expired => \A r \in db : ~ExpiredAt(r, now))

(* C3: after a run without --dry-run on a non-empty list, started at T     *)
(* with --expire-in-day N >= 0, the store holds for every entry exactly    *)
(* one row keyed by the entry's address, with Deny = 1, the entry's        *)
(* canonical form and ExpireTime = 0 if N = 0, T + N * 86400 otherwise,    *)
(* whatever row the key had before and however often the address is in     *)
(* the list.                                                               *)
C3_ExpectedExpire ==
    IF argv.expire_in_day = 0 THEN 0 ELSE start_time + argv.expire_in_day * DaySeconds

C3_UpsertPostcondition ==
    (pc = "done" /\ ~argv.dry_run) =>
        /\ Len(ips_formatted) > 0
        /\ \A k \in 1..Len(ips_formatted) :
              /\ ips_formatted[k][3] = C3_ExpectedExpire
              /\ Cardinality({r \in db : r.IP = ips_formatted[k][1]}) = 1
              /\ \A r \in db :
                    r.IP = ips_formatted[k][1] =>
                        /\ r.Deny = 1
                        /\ r.IPStd = ips_formatted[k][2]
                        /\ r.ExpireTime = C3_ExpectedExpire
                        /\ (r.IP = Addr4 =>
                               Str(r.IPStd) = "0000:0000:0000:0000:0000:FFFF:0102:0304")
                        /\ (r.IP = Addr6 =>
                               Str(r.IPStd) = "0000:0000:0000:0000:0000:0000:0000:0001")

(* C3 witness: a finished run with N > 0 whose clock moved after the       *)
(* start, whose list names 1.2.3.4 more than once, over a store that held  *)
(* 1.2.3.4 as a non-deny row that never expires.                           *)
C3_Witness ==
    /\ pc = "done"
    /\ ~argv.dry_run
    /\ argv.expire_in_day > 0
    /\ now > start_time
    /\ Len(ips_formatted) > Cardinality(Addresses(ips_formatted))
    /\ \E r \in db0 : r.IP = Addr4 /\ r.Deny = 0 /\ r.ExpireTime = 0

(* a row without its RecordTime *)
C4_Timeless(r) == [IP |-> r.IP, IPStd |-> r.IPStd, ExpireTime |-> r.ExpireTime,
                   Deny |-> r.Deny, Type |-> r.Type, Meta |-> r.Meta]

(* C4: the upsert of one entry list applied a second time leaves the store *)
(* as the first application left it: the same number of rows, the same     *)
(* rows but for RecordTime, and 0 added.                                   *)
C4_UpsertIdempotent ==
    (pc = "done" /\ run = 2) =>
        /\ Cardinality(db) = Cardinality(db0)
        /\ {C4_Timeless(r) : r \in db} = {C4_Timeless(r) : r \in db0}
        /\ \A r \in db : r.IP \notin Addresses(ips_formatted) => r \in db0
        /\ nb_ip_after - nb_ip_before = 0

(* C4 witness: the second application is committed, later than the first,  *)
(* so that RecordTime differs, on a list of two addresses.                 *)
C4_Witness ==
    /\ pc = "done"
    /\ run = 2
    /\ db # db0
    /\ Cardinality(Addresses(ips_formatted)) = 2

(* the tokens of a list that ip_address accepts, and those it refuses *)
C5_Valid(t) == ip_version(t) # 0

(* C5: process_ip is a stable partition: the normalized list holds the     *)
(* valid tokens in input order, the invalid list the non-empty tokens that *)
(* do not parse in input order, and the empty tokens are in neither.       *)
C5_StablePartition ==
    pc = "norm_done" =>
        /\ [k \in 1..Len(ips_formatted) |-> ips_formatted[k][1]]
               = SelectSeq(ips, C5_Valid)
        /\ ips_invalid = SelectSeq(ips, LAMBDA t : t # <<>> /\ ~C5_Valid(t))

(* C6: the canonical form of a.b.c.d is 0000:0000:0000:0000:0000:FFFF:     *)
(* followed by the four uppercase hex digits of a*256+b, a colon, and the  *)
(* four uppercase hex digits of c*256+d, whatever the expiry of the run.   *)
C6_HexDigitsUpper == <<"0", "1", "2", "3", "4", "5", "6", "7", "8", "9",
                       "A", "B", "C", "D", "E", "F">>

C6_Hex4(n) == <<C6_HexDigitsUpper[(n \div 4096) + 1],
                C6_HexDigitsUpper[((n \div 256) % 16) + 1],
                C6_HexDigitsUpper[((n \div 16) % 16) + 1],
                C6_HexDigitsUpper[(n % 16) + 1]>>

C6_Ipv4CanonicalForm ==
    (pc = "norm_done" /\ octets # <<>>) =>
        /\ ips_invalid = <<>>
        /\ Len(ips_formatted) = 1
        /\ ips_formatted[1][1] = ips[1]
        /\ Len(ips_formatted[1][2]) = 39
        /\ Str(ips_formatted[1][2]) =
               "0000:0000:0000:0000:0000:FFFF:"
                   \o Str(C6_Hex4(octets[1] * 256 + octets[2])) \o ":"
                   \o Str(C6_Hex4(octets[3] * 256 + octets[4]))

(* C6 witness: 10.0.171.255 was normalised: octets below 16 and hex        *)
(* letters both occur.                                                     *)
C6_Witness ==
    /\ pc = "norm_done"
    /\ octets = <<10, 0, 171, 255>>
    /\ Str(ips_formatted[1][2]) = "0000:0000:0000:0000:0000:FFFF:0A00:ABFF"

(* C7, as claimed: no failure to read a source, a local file included,     *)
(* aborts the run.                                                         *)
C7_NoSourceFailureAborts == pc \notin {"error_file", "fatal_read"}

C7_FailedUrls == {i \in 1..Len(data) : ~data[i].ok}

(* C7, amended: a url that cannot be fetched does not abort the run: it    *)
(* gives the one empty token, every other source's lines are in the token  *)
(* list in reading order, and a finished run without --dry-run holds a     *)
(* deny row for every address of the other sources.  A local file that     *)
(* cannot be opened or read ends the run, before any url is fetched and    *)
(* with the store untouched.                                               *)
C7_RemoteFailureRecovered ==
    /\ C7_FailedUrls # {} =>
          /\ pc \in {"connect", "upsert", "commit", "done", "no_ip", "fatal_store"}
          /\ \A i \in C7_FailedUrls : data[i].kind = "url" /\ data[i].lines = <<<<>>>>
          /\ ips = reduce([i \in 1..Len(data) |-> data[i].lines])
          /\ \A i \in 1..Len(data) : \A k \in 1..Len(data[i].lines) :
                ip_version(data[i].lines[k]) # 0 =>
                    /\ data[i].lines[k] \in Addresses(ips_formatted)
                    /\ (pc = "done" /\ ~argv.dry_run =>
                           \E r \in db : r.IP = data[i].lines[k] /\ r.Deny = 1)
    /\ pc \in {"error_file", "fatal_read"} =>
          /\ data = <<>>
          /\ db = db0
          /\ ~conn.open
          /\ executed = {}

(* C7 witness: a finished run without --dry-run in which one url failed    *)
(* and another source gave addresses.                                      *)
C7_Witness ==
    /\ pc = "done"
    /\ ~argv.dry_run
    /\ C7_FailedUrls # {}
    /\ \E i \in 1..Len(data) : data[i].ok /\ Len(data[i].lines) > 1

(* C8: purge, clear-all and upsert are written in one transaction that is  *)
(* committed once, at the end: until then the store holds the rows it had, *)
(* and a run ended by a store failure leaves them as they were.            *)
C8_StoreFailureLeavesStore ==
    /\ pc # "done" => db = db0
    /\ pc = "fatal_store" => db = db0 /\ ~conn.open
    /\ conn.open => pc \in {"upsert", "commit"}

(* C8 witness: the store failed after clear-all had deleted a deny row in  *)
(* the transaction, and the REPLACE had run.                               *)
C8_Witness ==
    /\ pc = "fatal_store"
    /\ "clear" \in executed
    /\ "replace" \in executed
    /\ DenyRows(db0) # {}

(* C9: clear-all deletes only after this run copied the store, as it was   *)
(* before any change, to the backup folder; a command line with --clear-db *)
(* and no backup folder is refused before the database is looked at.       *)
C9_ClearAfterBackup ==
    /\ "clear" \in executed => db0 \in backup
    /\ backup \subseteq {db0}
    /\ (argv.clear_db /\ argv.backup_to = "None") =>
          /\ pc \in {"error_backup_required", "error_no_source", "error_file", "error_url"}
          /\ ~conn.open
          /\ db = db0
          /\ executed = {}
          /\ backup = {}

(* C9 witness: a finished run whose clear-all deleted deny rows.           *)
C9_Witness ==
    /\ pc = "done"
    /\ "clear" \in executed
    /\ \E r \in DenyRows(db0) : r \notin db /\ r.IP \notin Addresses(ips_formatted)

(* C10, as claimed: every row that was not a deny row before the run is in *)
(* the store unchanged after it.                                           *)
C10_NonDenyRowsKept == \A r \in db0 : r.Deny = 0 => r \in db

(* C10, amended: purge and clear-all delete deny rows only, and a row that *)
(* was not a deny row is in the store unchanged unless the run upserted an *)
(* entry with its IP, which replaced it by a deny row.                     *)
C10_NonDenyRowsKeptUnlessUpserted ==
    \A r \in db0 :
        r.Deny = 0 =>
            /\ (conn.open /\ pc = "upsert" => r \in conn.rows)
            /\ \/ r \in db
               \/ /\ pc = "done"
                  /\ ~argv.dry_run
                  /\ r.IP \in Addresses(ips_formatted)
                  /\ \E q \in db : q.IP = r.IP /\ q.Deny = 1

(* C10 witness: a finished run with --remove-expired and --clear-db that   *)
(* changed the store and kept a non-deny row whose ExpireTime had passed   *)
(* and whose IP was not in the list.                                       *)
C10_Witness ==
    /\ pc = "done"
    /\ argv.remove_expired /\ argv.clear_db /\ ~argv.dry_run
    /\ db # db0
    /\ \E r \in db0 :
          /\ r.Deny = 0
          /\ r.ExpireTime > 0 /\ r.ExpireTime < now
          /\ r.IP \notin Addresses(ips_formatted)
          /\ r \in db

====
